---- MODULE Spec2Model ----
(***************************************************************************)
(* redgreen-tdd: the countdown Timer (core/timer.py), the persistent       *)
(* Session built on the same state graph (core/session.py) and the file    *)
(* protocol of Session._save / Session._load.                              *)
(*                                                                         *)
(* Time is counted in ticks, TicksPerSecond ticks to the second, so that   *)
(* the float readings of time.monotonic() / time.time() keep a fractional  *)
(* part and int(seconds) in _format_remaining really truncates.            *)
(***************************************************************************)
EXTENDS Integers, Sequences, FiniteSets, TLC

VARIABLES
    sut,    \* what the behaviour drives: "session", "timer", "processes" or
            \* "format" (_format_remaining alone)
    mono,   \* time.monotonic(), in ticks
    wall,   \* time.time(), in ticks
    disk,   \* <config_dir>/session.json: Absent, Empty or the record
    s,      \* the Session object of the running process
    t,      \* the Timer object
    last,   \* the last call: what it was given, what it found, what it returned
    frozen, \* history: the remaining time seen just before the last pause of a
            \* running countdown, and the clock reading of the resume after it
    procs,  \* the command-line processes running side by side: where each
            \* is in Session(), its call and _save, and what it holds
    twin    \* a second execution given the same calls at the same monotonic
            \* readings, its wall clock set differently: its clock, its
            \* objects and what its last call returned

vars == <<sut, mono, wall, disk, s, t, last, frozen, procs, twin>>

----------------------------------------------------------------------------
(* Bounds of the model *)

TicksPerSecond == 2
\* the clock is followed for MaxHalfMinutes half minutes
MaxHalfMinutes == 3
\* time.time() at the start of the behaviour, in ticks
WallEpoch == 1000

(* Program constants *)

SecondsPerMinute == 60
MIN_DURATION == 1
MAX_DURATION == 60

TicksPerMinute == SecondsPerMinute * TicksPerSecond
HalfMinute == TicksPerMinute \div 2
MaxClock == MaxHalfMinutes * HalfMinute

\* the steps the clocks advance by: just under and just over half a minute
\* (one of each makes a minute to the tick)
Steps == {HalfMinute - 1, HalfMinute + 1}
\* the minutes start() is called with: in range, the two edges, and out of range
StartMinutes == {-1, 0, 1, 2, 61}
\* an argument of start(): its Python type and its value
IntArg(m) == [type |-> "int", v |-> m]
FloatArg(m) == [type |-> "float", v |-> m]
NoArg == IntArg(0)
\* Session.start is given the int the command line parsed; Timer.start may
\* be handed a float as well
SessionStartArgs == {IntArg(m) : m \in StartMinutes}
TimerStartArgs == SessionStartArgs \cup {IntArg(MAX_DURATION), FloatArg(1)}

Max(a, b) == IF a >= b THEN a ELSE b

----------------------------------------------------------------------------
(* core/timer.py: TimerState *)

IDLE == "idle"
RUNNING == "running"
PAUSED == "paused"
EXPIRED == "expired"
TimerState == {IDLE, RUNNING, PAUSED, EXPIRED}

VALID_START_STATES == {IDLE, EXPIRED}
VALID_RESTART_STATES == {RUNNING, PAUSED, EXPIRED}

\* Timer.__init__
NewTimer ==
    [state |-> IDLE, duration_seconds |-> 0, original_duration_minutes |-> 0,
     start_time |-> 0, remaining_at_pause |-> 0]

\* What a Timer call hands back: the object after it, the exception raised
\* ("none" if it returned), the exception's message, the value returned
TimerOutcome(tt, raised, msg, ret) ==
    [t |-> tt, raised |-> raised, msg |-> msg, ret |-> ret]

\* Timer._require_state: TRUE when the state is valid
RequireState(tt, valid) == tt.state \in valid

\* the InvalidStateError of Timer._require_state
InvalidState(tt, method) ==
    TimerOutcome(tt, "InvalidStateError",
                 method \o "() is not valid from " \o tt.state \o " state", 0)

\* Timer._begin_running
TimerBeginRunning(tt, now) == [tt EXCEPT !.start_time = now, !.state = RUNNING]

\* get_remaining() with the expiry test `remaining < 0.0`: a budget used
\* up to the tick would be reported as 0 with the timer still Running
TimerGetRemainingStrict(tt, now) ==
    IF tt.state = RUNNING
    THEN LET remaining == tt.duration_seconds - (now - tt.start_time) IN
         IF remaining < 0
         THEN TimerOutcome([tt EXCEPT !.remaining_at_pause = 0, !.state = EXPIRED],
                           "none", "", 0)
         ELSE TimerOutcome(tt, "none", "", remaining)
    ELSE IF tt.state = PAUSED
    THEN TimerOutcome(tt, "none", "", tt.remaining_at_pause)
    ELSE TimerOutcome(tt, "none", "", 0)

\* Timer.get_remaining
TimerGetRemaining(tt, now) ==
    IF tt.state = RUNNING
    THEN LET remaining == tt.duration_seconds - (now - tt.start_time) IN
         IF remaining <= 0
         THEN TimerOutcome([tt EXCEPT !.remaining_at_pause = 0, !.state = EXPIRED],
                           "none", "", 0)
         ELSE TimerOutcome(tt, "none", "", remaining)
    ELSE IF tt.state = PAUSED
    THEN TimerOutcome(tt, "none", "", tt.remaining_at_pause)
    ELSE TimerOutcome(tt, "none", "", 0)

\* start() that validates the state before the duration
TimerStartGuardFirst(tt, arg, now) ==
    IF ~RequireState(tt, VALID_START_STATES) THEN InvalidState(tt, "start")
    ELSE IF arg.type # "int"
    THEN TimerOutcome(tt, "TypeError",
                      "duration_minutes must be an integer, got " \o arg.type, 0)
    ELSE IF ~(MIN_DURATION <= arg.v /\ arg.v <= MAX_DURATION)
    THEN TimerOutcome(tt, "ValueError",
                      "duration_minutes must be between " \o ToString(MIN_DURATION)
                      \o " and " \o ToString(MAX_DURATION) \o ", got " \o ToString(arg.v), 0)
    ELSE TimerOutcome(TimerBeginRunning([tt EXCEPT !.original_duration_minutes = arg.v,
                                                   !.duration_seconds = arg.v * TicksPerMinute],
                                        now),
                      "none", "", 0)

\* Timer.start
TimerStart(tt, arg, now) ==
    IF arg.type # "int"
    THEN TimerOutcome(tt, "TypeError",
                      "duration_minutes must be an integer, got " \o arg.type, 0)
    ELSE IF ~(MIN_DURATION <= arg.v /\ arg.v <= MAX_DURATION)
    THEN TimerOutcome(tt, "ValueError",
                      "duration_minutes must be between " \o ToString(MIN_DURATION)
                      \o " and " \o ToString(MAX_DURATION) \o ", got " \o ToString(arg.v), 0)
    ELSE IF ~RequireState(tt, VALID_START_STATES) THEN InvalidState(tt, "start")
    ELSE TimerOutcome(TimerBeginRunning([tt EXCEPT !.original_duration_minutes = arg.v,
                                                   !.duration_seconds = arg.v * TicksPerMinute],
                                        now),
                      "none", "", 0)

\* pause() that freezes the remainder before it validates the state
TimerPauseFreezesFirst(tt, now, now2) ==
    LET g == TimerGetRemaining(tt, now).t
        elapsed == now2 - g.start_time
        f == [g EXCEPT !.remaining_at_pause = Max(g.duration_seconds - elapsed, 0)]
    IN  IF ~RequireState(f, {RUNNING}) THEN InvalidState(f, "pause")
        ELSE TimerOutcome([f EXCEPT !.state = PAUSED], "none", "", 0)

\* Timer.pause; `now` is the clock reading of its get_remaining(), `now2`
\* the later one of its own elapsed computation
TimerPause(tt, now, now2) ==
    LET g == TimerGetRemaining(tt, now).t
        elapsed == now2 - g.start_time
    IN  IF ~RequireState(g, {RUNNING}) THEN InvalidState(g, "pause")
        ELSE TimerOutcome([g EXCEPT !.remaining_at_pause = Max(g.duration_seconds - elapsed, 0),
                                    !.state = PAUSED],
                          "none", "", 0)

\* resume() without its _require_state
TimerResumeUnguarded(tt, now) ==
    TimerOutcome(TimerBeginRunning([tt EXCEPT !.duration_seconds = tt.remaining_at_pause],
                                   now),
                 "none", "", 0)

\* resume() that queries the remaining time first, as pause() does
TimerResumeChecksExpiry(tt, now) ==
    LET q == TimerGetRemaining(tt, now).t IN
    IF ~RequireState(q, {PAUSED}) THEN InvalidState(q, "resume")
    ELSE TimerOutcome(TimerBeginRunning([q EXCEPT !.duration_seconds = q.remaining_at_pause],
                                        now),
                      "none", "", 0)

\* Timer.resume
TimerResume(tt, now) ==
    IF ~RequireState(tt, {PAUSED}) THEN InvalidState(tt, "resume")
    ELSE TimerOutcome(TimerBeginRunning([tt EXCEPT !.duration_seconds = tt.remaining_at_pause],
                                        now),
                      "none", "", 0)

\* Timer.restart
TimerRestart(tt, now) ==
    IF ~RequireState(tt, VALID_RESTART_STATES) THEN InvalidState(tt, "restart")
    ELSE TimerOutcome(TimerBeginRunning([tt EXCEPT !.duration_seconds =
                                                       tt.original_duration_minutes * TicksPerMinute],
                                        now),
                      "none", "", 0)

\* Timer.get_state: the field as it is
TimerGetState(tt) == TimerOutcome(tt, "none", tt.state, 0)

(* core/session.py *)

ACTIVE_STATES == {RUNNING, PAUSED}

\* the `data` dict of Session._save
SaveData(ss) ==
    [state |-> ss.state, duration_minutes |-> ss.duration_minutes,
     remaining_seconds |-> ss.remaining_seconds, started_at |-> ss.started_at]

\* the characters of str(n)
IntLen(n) ==
    IF n < 0 THEN 1 + Len(ToString(0 - n)) ELSE Len(ToString(n))

\* the characters of repr(x) for the float x held in ticks: sign, integer
\* part, the point and one digit (a whole or a half number of seconds)
FloatLen(ticks) ==
    (IF ticks < 0 THEN 1 ELSE 0)
    + Len(ToString((IF ticks < 0 THEN 0 - ticks ELSE ticks) \div TicksPerSecond)) + 2

\* the characters of the keys, quotes and punctuation of json.dumps(data)
JsonFrame == 74

\* the characters json.dump(data, f) writes
JsonLen(data) ==
    JsonFrame + Len(data.state) + IntLen(data.duration_minutes)
    + FloatLen(data.remaining_seconds) + FloatLen(data.started_at)

\* session.json: not there; there and empty (opened for writing, not yet
\* written); holding the JSON of a `data` dict; or holding a shorter text
\* written over a longer one, whose tail is left behind it
NoData == [state |-> IDLE, duration_minutes |-> 0, remaining_seconds |-> 0, started_at |-> 0]
Absent == [kind |-> "absent", data |-> NoData, len |-> 0]
Empty == [kind |-> "empty", data |-> NoData, len |-> 0]
Json(data) == [kind |-> "json", data |-> data, len |-> JsonLen(data)]
Torn(len) == [kind |-> "torn", data |-> NoData, len |-> len]

\* the file after json.dump(data, f) and close on a handle opened with "w"
\* and still at offset 0: the text replaces what the file holds from its
\* start, and what the file holds beyond it stays
Written(file, data) ==
    IF file.len > JsonLen(data) THEN Torn(file.len) ELSE Json(data)

\* int(seconds): truncation toward zero of a value held in ticks
IntSeconds(ticks) ==
    IF ticks >= 0 THEN ticks \div TicksPerSecond
    ELSE 0 - ((0 - ticks) \div TicksPerSecond)

\* f"{n:02d}"
Pad2(n) == IF n >= 0 /\ n < 10 THEN "0" \o ToString(n) ELSE ToString(n)

\* _format_remaining with the seconds not padded: f"{total // 60}:{total % 60}"
FormatRemainingNoPad(ticks) ==
    LET total == IntSeconds(ticks)
    IN  ToString(total \div SecondsPerMinute) \o ":" \o ToString(total % SecondsPerMinute)

\* _format_remaining that rounds to the nearest second: total = round(seconds)
FormatRemainingRounds(ticks) ==
    LET total == (2 * ticks + TicksPerSecond) \div (2 * TicksPerSecond)
    IN  ToString(total \div SecondsPerMinute) \o ":" \o Pad2(total % SecondsPerMinute)

\* _format_remaining(seconds): f"{total // 60}:{total % 60:02d}"
FormatRemaining(ticks) ==
    LET total == IntSeconds(ticks)
    IN  ToString(total \div SecondsPerMinute) \o ":" \o Pad2(total % SecondsPerMinute)

\* Session.__init__ before _load
NewSession ==
    [state |-> IDLE, duration_minutes |-> 0, remaining_seconds |-> 0,
     started_at |-> 0, monotonic_ref |-> 0]

\* Session._get_remaining, the monotonic clock reading `now`
GetRemaining(ss, now) ==
    IF ss.state # RUNNING THEN ss.remaining_seconds
    ELSE Max(ss.remaining_seconds - (now - ss.monotonic_ref), 0)

\* _effective_state with the expiry test `< 0.0`: a budget used up to the
\* tick would still be Running
EffectiveStateStrict(ss, now) ==
    IF ss.state = RUNNING /\ ss.remaining_seconds - (now - ss.monotonic_ref) < 0
    THEN [ss EXCEPT !.state = EXPIRED]
    ELSE ss

\* Session._effective_state: the object after the call (its state is the
\* value returned)
EffectiveState(ss, now) ==
    IF ss.state = RUNNING /\ GetRemaining(ss, now) <= 0
    THEN [ss EXCEPT !.state = EXPIRED]
    ELSE ss

\* _begin_running that takes the baseline of the countdown from time.time()
BeginRunningWallAnchor(ss, now, wnow) ==
    [ss EXCEPT !.started_at = wnow, !.monotonic_ref = wnow - WallEpoch, !.state = RUNNING]

\* Session._begin_running without its _save: the fields it sets
BeginRunning(ss, now, wnow) ==
    [ss EXCEPT !.started_at = wnow, !.monotonic_ref = now, !.state = RUNNING]

\* What a call hands back: the object after it, whether it reached _save,
\* the exception it raised ("none" if it returned), the message, the exit code
Outcome(ss, saved, raised, msg, code) ==
    [s |-> ss, saved |-> saved, raised |-> raised, msg |-> msg, ret |-> code]

\* Session.start
SessionStart(ss, arg, now, wnow) ==
    LET e == EffectiveState(ss, now)
        minutes == arg.v
    IN
    IF e.state \in ACTIVE_STATES
    THEN Outcome(e, FALSE, "InvalidStateError",
                 "start() is not valid from " \o e.state \o " state", 1)
    ELSE Outcome(BeginRunning([e EXCEPT !.duration_minutes = minutes,
                                        !.remaining_seconds = minutes * TicksPerMinute],
                              now, wnow),
                 TRUE, "none",
                 "Session started: " \o ToString(minutes) \o " minutes", 0)

\* status() with a paused session reported as a failure (exit code 1)
SessionStatusPausedFails(ss, now, now2) ==
    LET e == EffectiveState(ss, now) IN
    IF e.state = RUNNING
    THEN Outcome(e, FALSE, "none", FormatRemaining(GetRemaining(e, now2)) \o " remaining", 0)
    ELSE IF e.state = PAUSED
    THEN Outcome(e, FALSE, "none",
                 FormatRemaining(e.remaining_seconds) \o " remaining (paused)", 1)
    ELSE IF e.state = EXPIRED
    THEN Outcome(e, FALSE, "none", "Session expired", 1)
    ELSE Outcome(e, FALSE, "none", "No active session", 1)

\* status() that saves the record when it finds the session expired
SessionStatusSavesExpiry(ss, now, now2) ==
    LET e == EffectiveState(ss, now) IN
    IF e.state = RUNNING
    THEN Outcome(e, FALSE, "none", FormatRemaining(GetRemaining(e, now2)) \o " remaining", 0)
    ELSE IF e.state = PAUSED
    THEN Outcome(e, FALSE, "none",
                 FormatRemaining(e.remaining_seconds) \o " remaining (paused)", 0)
    ELSE IF e.state = EXPIRED
    THEN Outcome(e, ss.state = RUNNING, "none", "Session expired", 1)
    ELSE Outcome(e, FALSE, "none", "No active session", 1)

\* Session.status; `now` is the clock reading of _effective_state, `now2`
\* the later one of _get_remaining
SessionStatus(ss, now, now2) ==
    LET e == EffectiveState(ss, now) IN
    IF e.state = RUNNING
    THEN Outcome(e, FALSE, "none", FormatRemaining(GetRemaining(e, now2)) \o " remaining", 0)
    ELSE IF e.state = PAUSED
    THEN Outcome(e, FALSE, "none",
                 FormatRemaining(e.remaining_seconds) \o " remaining (paused)", 0)
    ELSE IF e.state = EXPIRED
    THEN Outcome(e, FALSE, "none", "Session expired", 1)
    ELSE Outcome(e, FALSE, "none", "No active session", 1)

\* pause() that reports the remaining time but does not store it
SessionPauseKeepsBudget(ss, now, wnow) ==
    LET remaining == GetRemaining(ss, now) IN
    Outcome([ss EXCEPT !.state = PAUSED, !.started_at = wnow],
            TRUE, "none",
            "Session paused at " \o FormatRemaining(remaining) \o " remaining", 0)

\* Session.pause
SessionPause(ss, now, wnow) ==
    LET remaining == GetRemaining(ss, now) IN
    Outcome([ss EXCEPT !.remaining_seconds = remaining, !.state = PAUSED,
                       !.started_at = wnow],
            TRUE, "none",
            "Session paused at " \o FormatRemaining(remaining) \o " remaining", 0)

\* resume() that sets the state but keeps the old monotonic baseline
SessionResumeStale(ss, now, wnow) ==
    Outcome([ss EXCEPT !.started_at = wnow, !.state = RUNNING], TRUE, "none",
            "Session resumed: " \o FormatRemaining(ss.remaining_seconds) \o " remaining", 0)

\* Session.resume
SessionResume(ss, now, wnow) ==
    Outcome(BeginRunning(ss, now, wnow), TRUE, "none",
            "Session resumed: " \o FormatRemaining(ss.remaining_seconds) \o " remaining", 0)

\* restart() that takes the duration from the whole minutes still remaining
SessionRestartFromRemaining(ss, now, wnow) ==
    LET minutes == IntSeconds(GetRemaining(ss, now)) \div SecondsPerMinute IN
    Outcome(BeginRunning([ss EXCEPT !.duration_minutes = minutes,
                                    !.remaining_seconds = minutes * TicksPerMinute],
                         now, wnow),
            TRUE, "none",
            "Session restarted: " \o ToString(minutes) \o " minutes", 0)

\* Session.restart
SessionRestart(ss, now, wnow) ==
    Outcome(BeginRunning([ss EXCEPT !.remaining_seconds = ss.duration_minutes * TicksPerMinute],
                         now, wnow),
            TRUE, "none",
            "Session restarted: " \o ToString(ss.duration_minutes) \o " minutes", 0)

\* _load with the expiry test `adjusted < 0.0`: a record whose budget is
\* used up to the tick would come back Running
LoadRecordStrict(ss, data, now, wnow) ==
    LET f == [ss EXCEPT !.duration_minutes = data.duration_minutes,
                        !.remaining_seconds = data.remaining_seconds,
                        !.started_at = data.started_at]
        adjusted == f.remaining_seconds - (wnow - f.started_at)
    IN  IF data.state = RUNNING
        THEN IF adjusted < 0
             THEN [f EXCEPT !.state = EXPIRED, !.remaining_seconds = 0]
             ELSE [f EXCEPT !.state = RUNNING, !.remaining_seconds = adjusted,
                            !.monotonic_ref = now]
        ELSE IF data.state = PAUSED THEN [f EXCEPT !.state = PAUSED]
        ELSE IF data.state = EXPIRED THEN [f EXCEPT !.state = EXPIRED]
        ELSE f

\* _load that takes the wall-clock time since started_at off a paused
\* record as it does off a running one
LoadRecordPausedElapses(ss, data, now, wnow) ==
    LET f == [ss EXCEPT !.duration_minutes = data.duration_minutes,
                        !.remaining_seconds = data.remaining_seconds,
                        !.started_at = data.started_at]
        elapsed == wnow - f.started_at
        adjusted == f.remaining_seconds - elapsed
    IN  IF data.state = RUNNING
        THEN IF adjusted <= 0
             THEN [f EXCEPT !.state = EXPIRED, !.remaining_seconds = 0]
             ELSE [f EXCEPT !.state = RUNNING, !.remaining_seconds = adjusted,
                            !.monotonic_ref = now]
        ELSE IF data.state = PAUSED
        THEN [f EXCEPT !.state = PAUSED, !.remaining_seconds = Max(adjusted, 0)]
        ELSE IF data.state = EXPIRED THEN [f EXCEPT !.state = EXPIRED]
        ELSE f

\* _load that takes the time already run off the budget but leaves the
\* monotonic baseline where __init__ put it
LoadRecordKeepsAnchor(ss, data, now, wnow) ==
    LET f == [ss EXCEPT !.duration_minutes = data.duration_minutes,
                        !.remaining_seconds = data.remaining_seconds,
                        !.started_at = data.started_at]
        elapsed == wnow - f.started_at
        adjusted == f.remaining_seconds - elapsed
    IN  IF data.state = RUNNING
        THEN IF adjusted <= 0
             THEN [f EXCEPT !.state = EXPIRED, !.remaining_seconds = 0]
             ELSE [f EXCEPT !.state = RUNNING, !.remaining_seconds = adjusted]
        ELSE IF data.state = PAUSED THEN [f EXCEPT !.state = PAUSED]
        ELSE IF data.state = EXPIRED THEN [f EXCEPT !.state = EXPIRED]
        ELSE f

\* Session._load of a complete record `data`, into the fresh object `ss`
LoadRecord(ss, data, now, wnow) ==
    LET f == [ss EXCEPT !.duration_minutes = data.duration_minutes,
                        !.remaining_seconds = data.remaining_seconds,
                        !.started_at = data.started_at]
        elapsed == wnow - f.started_at
        adjusted == f.remaining_seconds - elapsed
    IN  IF data.state = RUNNING
        THEN IF adjusted <= 0
             THEN [f EXCEPT !.state = EXPIRED, !.remaining_seconds = 0]
             ELSE [f EXCEPT !.state = RUNNING, !.remaining_seconds = adjusted,
                            !.monotonic_ref = now]
        ELSE IF data.state = PAUSED THEN [f EXCEPT !.state = PAUSED]
        ELSE IF data.state = EXPIRED THEN [f EXCEPT !.state = EXPIRED]
        ELSE f

\* Session.__init__ whose _load opens the file without asking whether it
\* exists: FileNotFoundError when it does not
SessionInitNoExistsCheck(file, now, wnow) ==
    IF file = Absent THEN Outcome(NewSession, FALSE, "FileNotFoundError", "", 1)
    ELSE IF file.kind # "json"
    THEN Outcome(NewSession, FALSE, "JSONDecodeError", "", 1)
    ELSE Outcome(LoadRecord(NewSession, file.data, now, wnow), FALSE, "none", "", 0)

\* Session.__init__: the defaults, then _load of what the file holds
SessionInit(file, now, wnow) ==
    IF file = Absent THEN Outcome(NewSession, FALSE, "none", "", 0)
    ELSE IF file.kind # "json"
    THEN Outcome(NewSession, FALSE, "JSONDecodeError", "", 1)
    ELSE Outcome(LoadRecord(NewSession, file.data, now, wnow), FALSE, "none", "", 0)

----------------------------------------------------------------------------
(* What a caller sees of the countdown, from the fields alone *)

\* the state of a Session once the expiry of a used-up budget is taken in
SessionStateAt(ss, now) ==
    IF ss.state = RUNNING /\ now - ss.monotonic_ref >= ss.remaining_seconds
    THEN EXPIRED ELSE ss.state

\* the remaining time of a Session: the budget less the time run, the frozen
\* remainder while paused, nothing when idle or expired
SessionRemainingAt(ss, now) ==
    IF SessionStateAt(ss, now) = RUNNING
    THEN ss.remaining_seconds - (now - ss.monotonic_ref)
    ELSE IF ss.state = PAUSED THEN ss.remaining_seconds
    ELSE 0

\* the same of a Timer
TimerStateAt(tt, now) ==
    IF tt.state = RUNNING /\ now - tt.start_time >= tt.duration_seconds
    THEN EXPIRED ELSE tt.state

TimerRemainingAt(tt, now) ==
    IF TimerStateAt(tt, now) = RUNNING
    THEN tt.duration_seconds - (now - tt.start_time)
    ELSE IF tt.state = PAUSED THEN tt.remaining_at_pause
    ELSE 0

NotFrozen == [phase |-> "none", v |-> 0, at |-> 0, pausedFor |-> 0, reloaded |-> FALSE]

\* `frozen` after a call: a pause of a running countdown records the
\* remaining time just before it and its clock reading; the resume that
\* follows records its own reading and how long the pause lasted; a new
\* process in between is noted; any other call that returned and changed
\* the countdown clears the history
FrozenAfter(op, raised, wasRunning, before, now) ==
    IF raised # "none" \/ op \in {"status", "get_remaining", "get_state"} THEN frozen
    ELSE IF op = "construct"
    THEN [frozen EXCEPT !.reloaded = (frozen.phase = "paused") \/ frozen.reloaded]
    ELSE IF op = "pause" /\ wasRunning
    THEN [phase |-> "paused", v |-> before, at |-> now, pausedFor |-> 0, reloaded |-> FALSE]
    ELSE IF op = "resume" /\ frozen.phase = "paused"
    THEN [frozen EXCEPT !.phase = "resumed", !.at = now, !.pausedFor = now - frozen.at]
    ELSE NotFrozen

----------------------------------------------------------------------------
(* The calls, one action each *)

\* what `last` keeps of a call: seq flips at every call; from is the state
\* field of the object the call was made on; slipped says that the clock
\* moved between two readings the call made
Call(op, arg, out, slipped) ==
    [seq |-> 1 - last.seq, op |-> op, arg |-> arg,
     from |-> IF sut = "timer" THEN t.state ELSE s.state,
     raised |-> out.raised, msg |-> out.msg, ret |-> out.ret, slipped |-> slipped]

NoCall ==
    [seq |-> 0, op |-> "new", arg |-> NoArg, from |-> IDLE, raised |-> "none",
     msg |-> "", ret |-> 0, slipped |-> FALSE]

\* a call of the Session object: the object is replaced, the record written
\* when the call reached _save
Apply(op, arg, out) ==
    /\ sut = "session"
    /\ s' = out.s
    /\ disk' = IF out.saved THEN Json(SaveData(out.s)) ELSE disk
    /\ last' = Call(op, arg, out, FALSE)
    /\ frozen' = FrozenAfter(op, out.raised, s.state = RUNNING,
                             SessionRemainingAt(s, mono), mono)
    /\ UNCHANGED <<sut, mono, wall, t, procs, twin>>

Start(arg) == Apply("start", arg, SessionStart(s, arg, mono, wall))

\* the clock may move between the two readings status() makes of it
Status(slip) ==
    /\ sut = "session"
    /\ mono + slip <= MaxClock
    /\ LET out == SessionStatus(s, mono, mono + slip) IN
        /\ s' = out.s
        /\ disk' = IF out.saved THEN Json(SaveData(out.s)) ELSE disk
        /\ last' = Call("status", NoArg, out, slip > 0)
    /\ mono' = mono + slip
    /\ wall' = wall + slip
    /\ UNCHANGED <<sut, t, frozen, procs, twin>>

Pause == Apply("pause", NoArg, SessionPause(s, mono, wall))

Resume == Apply("resume", NoArg, SessionResume(s, mono, wall))

Restart == Apply("restart", NoArg, SessionRestart(s, mono, wall))

\* a new process: Session() over the file the earlier processes left
Construct == Apply("construct", NoArg, SessionInit(disk, mono, wall))

\* time passes between two calls, on both clocks
Advance(d) ==
    /\ mono + d <= MaxClock
    /\ mono' = mono + d
    /\ wall' = wall + d
    /\ UNCHANGED <<sut, disk, s, t, last, frozen, procs, twin>>

\* a call of the Timer object; `slip` is how far the clock moved between
\* the readings the call made
TimerApply(op, arg, out, slip) ==
    /\ sut = "timer"
    /\ mono + slip <= MaxClock
    /\ t' = out.t
    /\ last' = Call(op, arg, out, slip > 0)
    /\ frozen' = FrozenAfter(op, out.raised, TimerStateAt(t, mono) = RUNNING,
                             TimerRemainingAt(t, mono + slip), mono + slip)
    /\ mono' = mono + slip
    /\ wall' = wall + slip
    /\ UNCHANGED <<sut, disk, s, procs, twin>>

TStart(arg) == TimerApply("start", arg, TimerStart(t, arg, mono), 0)

\* the clock may move between the two readings pause() makes of it
TPause(slip) == TimerApply("pause", NoArg, TimerPause(t, mono, mono + slip), slip)

TResume == TimerApply("resume", NoArg, TimerResume(t, mono), 0)

TRestart == TimerApply("restart", NoArg, TimerRestart(t, mono), 0)

TGetRemaining == TimerApply("get_remaining", NoArg, TimerGetRemaining(t, mono), 0)

TGetState == TimerApply("get_state", NoArg, TimerGetState(t), 0)

----------------------------------------------------------------------------
(* Command-line processes side by side (cli/main.py): each invocation
   builds a Session, which loads the file, makes its one call, and the call
   saves. The steps are those at which another process can come between:
   path.exists(), open(path), flock(LOCK_SH), json.load and close;
   the call on the object; open(path, "w"), flock(LOCK_EX), json.dump and
   close. *)

Procs == {1, 2}
\* invocations a process makes, one after the other
MaxRuns == 2

\* the commands: verb and argument
Commands ==
    {[verb |-> "start", arg |-> IntArg(1)], [verb |-> "start", arg |-> IntArg(2)],
     [verb |-> "status", arg |-> NoArg], [verb |-> "pause", arg |-> NoArg],
     [verb |-> "resume", arg |-> NoArg], [verb |-> "restart", arg |-> NoArg]}

\* exit is NoExit until the process has ended; calls counts the operations
\* invoked on the Session object
NoExit == -1

NoProcess ==
    [pc |-> "exited", runs |-> 0, verb |-> "none", arg |-> NoArg, s |-> NewSession,
     found |-> "nothing", lock |-> "none", raised |-> "none", msg |-> "", ret |-> 0,
     calls |-> 0, stdout |-> "", stderr |-> "", exit |-> NoExit]

\* a command that takes every outcome of status() for a success
CliRunStatusExitsZero(verb, raised, msg, ret) ==
    IF raised = "InvalidStateError"
    THEN [stdout |-> "", stderr |-> msg, exit |-> 1]
    ELSE [stdout |-> msg, stderr |-> "", exit |-> 0]

\* cli/main.py, what a command does with the outcome of its call: _run
\* prints an InvalidStateError to stderr and exits with 1; status echoes the
\* message and exits with the code returned; the others echo the message
\* and return, which ends the process with 0
CliRun(verb, raised, msg, ret) ==
    IF raised = "InvalidStateError"
    THEN [stdout |-> "", stderr |-> msg, exit |-> 1]
    ELSE IF verb = "status"
    THEN [stdout |-> msg, stderr |-> "", exit |-> ret]
    ELSE [stdout |-> msg, stderr |-> "", exit |-> 0]

\* the call of the command on the Session object
CommandCall(verb, arg, ss, now, wnow) ==
    CASE verb = "start" -> SessionStart(ss, arg, now, wnow)
      [] verb = "status" -> SessionStatus(ss, now, now)
      [] verb = "pause" -> SessionPause(ss, now, wnow)
      [] verb = "resume" -> SessionResume(ss, now, wnow)
      [] verb = "restart" -> SessionRestart(ss, now, wnow)

ProcStep(p, new) ==
    /\ sut = "processes"
    /\ procs' = [procs EXCEPT ![p] = new]
    /\ UNCHANGED <<sut, mono, wall, s, t, last, frozen, twin>>

\* the shell runs a command: Session.__init__
Invoke(p, c) ==
    /\ procs[p].pc = "exited"
    /\ procs[p].runs < MaxRuns
    /\ ProcStep(p, [NoProcess EXCEPT !.pc = "exists", !.runs = procs[p].runs + 1,
                                      !.verb = c.verb, !.arg = c.arg])
    /\ UNCHANGED disk

\* _load: path.exists()
LoadExists(p) ==
    /\ procs[p].pc = "exists"
    /\ ProcStep(p, IF disk.kind = "absent"
                   THEN [procs[p] EXCEPT !.pc = "call", !.found = "absent"]
                   ELSE [procs[p] EXCEPT !.pc = "open"])
    /\ UNCHANGED disk

\* _load: open(path)
LoadOpen(p) ==
    /\ procs[p].pc = "open"
    /\ ProcStep(p, [procs[p] EXCEPT !.pc = "flock_sh"])
    /\ UNCHANGED disk

\* _load: flock(f, LOCK_SH), which waits while another process holds LOCK_EX
LoadLock(p) ==
    /\ procs[p].pc = "flock_sh"
    /\ \A q \in Procs \ {p} : procs[q].lock # "EX"
    /\ ProcStep(p, [procs[p] EXCEPT !.pc = "read", !.lock = "SH"])
    /\ UNCHANGED disk

\* _load: json.load(f), the end of the with block (the lock goes with the
\* file handle) and the fields set from the data; a text that is no JSON
\* document raises out of Session()
LoadRead(p) ==
    /\ procs[p].pc = "read"
    /\ ProcStep(p, IF disk.kind = "json"
                   THEN [procs[p] EXCEPT !.pc = "call", !.lock = "none", !.found = "json",
                                         !.s = LoadRecord(NewSession, disk.data, mono, wall)]
                   ELSE [procs[p] EXCEPT !.pc = "exited", !.lock = "none",
                                         !.found = disk.kind,
                                         !.raised = "JSONDecodeError", !.ret = 1,
                                         !.stderr = "Traceback", !.exit = 1])
    /\ UNCHANGED disk

\* the command's call on the object, up to its _save; a call that does not
\* save has returned or raised, and the command ends
CallCommand(p) ==
    /\ procs[p].pc = "call"
    /\ LET out == CommandCall(procs[p].verb, procs[p].arg, procs[p].s, mono, wall)
           end == CliRun(procs[p].verb, out.raised, out.msg, out.ret)
       IN
       ProcStep(p, IF out.saved
                   THEN [procs[p] EXCEPT !.pc = "save_open", !.calls = @ + 1,
                                         !.s = out.s, !.raised = out.raised,
                                         !.msg = out.msg, !.ret = out.ret]
                   ELSE [procs[p] EXCEPT !.pc = "exited", !.calls = @ + 1,
                                         !.s = out.s, !.raised = out.raised,
                                         !.msg = out.msg, !.ret = out.ret,
                                         !.stdout = end.stdout, !.stderr = end.stderr,
                                         !.exit = end.exit])
    /\ UNCHANGED disk

\* _save: open(path, "w"), which creates the file or empties it
SaveOpen(p) ==
    /\ procs[p].pc = "save_open"
    /\ ProcStep(p, [procs[p] EXCEPT !.pc = "flock_ex"])
    /\ disk' = Empty

\* _save: flock(f, LOCK_EX), which waits while another process holds a lock
SaveLock(p) ==
    /\ procs[p].pc = "flock_ex"
    /\ \A q \in Procs \ {p} : procs[q].lock = "none"
    /\ ProcStep(p, [procs[p] EXCEPT !.pc = "dump", !.lock = "EX"])
    /\ UNCHANGED disk

\* _save that leaves the file locked when it is done
SaveDumpKeepsLock(p) ==
    /\ procs[p].pc = "dump"
    /\ LET end == CliRun(procs[p].verb, procs[p].raised, procs[p].msg, procs[p].ret) IN
       ProcStep(p, [procs[p] EXCEPT !.pc = "exited",
                                    !.stdout = end.stdout, !.stderr = end.stderr,
                                    !.exit = end.exit])
    /\ disk' = Written(disk, SaveData(procs[p].s))

\* _save: json.dump(data, f) and the end of the with block; the call
\* returns its message and the command ends
SaveDump(p) ==
    /\ procs[p].pc = "dump"
    /\ LET end == CliRun(procs[p].verb, procs[p].raised, procs[p].msg, procs[p].ret) IN
       ProcStep(p, [procs[p] EXCEPT !.pc = "exited", !.lock = "none",
                                    !.stdout = end.stdout, !.stderr = end.stderr,
                                    !.exit = end.exit])
    /\ disk' = Written(disk, SaveData(procs[p].s))

\* the second execution before its first call
NoTwin ==
    [wall |-> WallEpoch, jumped |-> FALSE, s |-> NewSession, t |-> NewTimer,
     raised |-> "none", msg |-> "", ret |-> 0]

Init ==
    /\ sut \in {"session", "timer"}
    /\ mono = 0
    /\ wall = WallEpoch
    /\ disk = Absent
    /\ s = NewSession
    /\ t = NewTimer
    /\ last = NoCall
    /\ frozen = NotFrozen
    /\ procs = [p \in Procs |-> NoProcess]
    /\ twin = NoTwin

Next ==
    \/ \E arg \in SessionStartArgs : Start(arg)
    \/ \E slip \in Steps \cup {0} : Status(slip)
    \/ Pause
    \/ Resume
    \/ Restart
    \/ Construct
    \/ \E arg \in TimerStartArgs : TStart(arg)
    \/ \E slip \in Steps \cup {0} : TPause(slip)
    \/ TResume
    \/ TRestart
    \/ TGetRemaining
    \/ TGetState
    \/ \E d \in Steps : Advance(d)

Spec == Init /\ [][Next]_vars

InitProcesses ==
    /\ sut = "processes"
    /\ mono = 0
    /\ wall = WallEpoch
    /\ disk = Absent
    /\ s = NewSession
    /\ t = NewTimer
    /\ last = NoCall
    /\ frozen = NotFrozen
    /\ procs = [p \in Procs |-> NoProcess]
    /\ twin = NoTwin

NextProcesses ==
    \E p \in Procs :
        \/ \E c \in Commands : Invoke(p, c)
        \/ LoadExists(p)
        \/ LoadOpen(p)
        \/ LoadLock(p)
        \/ LoadRead(p)
        \/ CallCommand(p)
        \/ SaveOpen(p)
        \/ SaveLock(p)
        \/ SaveDump(p)

SpecProcesses == InitProcesses /\ [][NextProcesses]_vars

\* the steps of a process once the shell has started it
ProcRun(p) ==
    \/ LoadExists(p)
    \/ LoadOpen(p)
    \/ LoadLock(p)
    \/ LoadRead(p)
    \/ CallCommand(p)
    \/ SaveOpen(p)
    \/ SaveLock(p)
    \/ SaveDump(p)

\* the commands that differ in what they do with the file: one that saves
\* where no file is, one that only loads, one that loads and saves
LockCommands ==
    {[verb |-> "start", arg |-> IntArg(1)], [verb |-> "status", arg |-> NoArg],
     [verb |-> "pause", arg |-> NoArg]}

NextProcessesFair ==
    \E p \in Procs :
        \/ \E c \in LockCommands : Invoke(p, c)
        \/ ProcRun(p)

\* the processes under a fair scheduler: a process that can take a step
\* (it is not waiting for the lock) gets to take one; nothing makes the
\* shell start a command
SpecProcessesFair ==
    InitProcesses /\ [][NextProcessesFair]_vars /\ \A p \in Procs : WF_vars(ProcRun(p))

\* Session's start() and status() alone, start() called with every number
\* of minutes of the valid range and the numbers next to it, the clock
\* moving by whole minutes
EveryMinutes == {IntArg(m) : m \in (MIN_DURATION - 1)..(MAX_DURATION + 1)}

InitSessionOnly == Init /\ sut = "session"

NextEveryMinutes ==
    \/ \E arg \in EveryMinutes : Start(arg)
    \/ \E slip \in {0, TicksPerMinute} : Status(slip)
    \/ Construct
    \/ Advance(TicksPerMinute)

SpecEveryMinutes == InitSessionOnly /\ [][NextEveryMinutes]_vars

----------------------------------------------------------------------------
(* One process, its wall clock set forward or back while it runs
   (time.time() follows the system clock, time.monotonic() does not): the
   same calls are made at the same monotonic readings on a second execution
   whose wall clock has been set differently. The monotonic clock moves by
   half minutes, so that a budget is used up to the tick. *)

\* how far apart the two wall clocks get, in minutes
MaxWallJumps == 1
\* what the system clock is set by
WallJumps == {0 - TicksPerMinute, TicksPerMinute}

\* the minutes start() is called with in the two executions
TwinStartArgs == {IntArg(1), IntArg(2)}

SessionOps == {"start", "status", "pause", "resume", "restart"}
TimerOps == {"start", "pause", "resume", "restart", "get_remaining"}

\* a call of a Session method: `now` and `now2` the monotonic readings it
\* makes (the second one in status() only), `wnow` its wall-clock reading
SessionCall(op, arg, ss, now, now2, wnow) ==
    CASE op = "start" -> SessionStart(ss, arg, now, wnow)
      [] op = "status" -> SessionStatus(ss, now, now2)
      [] op = "pause" -> SessionPause(ss, now, wnow)
      [] op = "resume" -> SessionResume(ss, now, wnow)
      [] op = "restart" -> SessionRestart(ss, now, wnow)

\* a call of a Timer method: it reads the monotonic clock only
TimerCall(op, arg, tt, now, now2) ==
    CASE op = "start" -> TimerStart(tt, arg, now)
      [] op = "pause" -> TimerPause(tt, now, now2)
      [] op = "resume" -> TimerResume(tt, now)
      [] op = "restart" -> TimerRestart(tt, now)
      [] op = "get_remaining" -> TimerGetRemaining(tt, now)

\* the same Session call in both executions
TwinCall(op, arg, slip) ==
    /\ sut = "session"
    /\ mono + slip <= MaxClock
    /\ LET out == SessionCall(op, arg, s, mono, mono + slip, wall)
           out2 == SessionCall(op, arg, twin.s, mono, mono + slip, twin.wall)
       IN  /\ s' = out.s
           /\ disk' = IF out.saved THEN Json(SaveData(out.s)) ELSE disk
           /\ last' = Call(op, arg, out, slip > 0)
           /\ twin' = [twin EXCEPT !.s = out2.s, !.wall = twin.wall + slip,
                                   !.raised = out2.raised, !.msg = out2.msg,
                                   !.ret = out2.ret]
    /\ mono' = mono + slip
    /\ wall' = wall + slip
    /\ UNCHANGED <<sut, t, frozen, procs>>

\* the same Timer call in both executions
TwinTimerCall(op, arg, slip) ==
    /\ sut = "timer"
    /\ mono + slip <= MaxClock
    /\ LET out == TimerCall(op, arg, t, mono, mono + slip)
           out2 == TimerCall(op, arg, twin.t, mono, mono + slip)
       IN  /\ t' = out.t
           /\ last' = Call(op, arg, out, slip > 0)
           /\ twin' = [twin EXCEPT !.t = out2.t, !.wall = twin.wall + slip,
                                   !.raised = out2.raised, !.msg = out2.msg,
                                   !.ret = out2.ret]
    /\ mono' = mono + slip
    /\ wall' = wall + slip
    /\ UNCHANGED <<sut, disk, s, frozen, procs>>

\* Session() in both executions, over the record earlier processes left:
\* the executions are the same up to their construction
TwinConstruct ==
    /\ sut = "session"
    /\ ~twin.jumped
    /\ LET out == SessionInit(disk, mono, wall) IN
           /\ s' = out.s
           /\ last' = Call("construct", NoArg, out, FALSE)
           /\ twin' = [twin EXCEPT !.s = out.s, !.raised = out.raised,
                                   !.msg = out.msg, !.ret = out.ret]
    /\ UNCHANGED <<sut, mono, wall, disk, t, frozen, procs>>

\* the system clock of the second execution is set forward or back
WallJump(j) ==
    /\ twin.wall + j - wall \in
           (0 - MaxWallJumps * TicksPerMinute)..(MaxWallJumps * TicksPerMinute)
    /\ twin' = [twin EXCEPT !.wall = twin.wall + j, !.jumped = TRUE]
    /\ UNCHANGED <<sut, mono, wall, disk, s, t, last, frozen, procs>>

\* time passes in both executions
TwinAdvance(d) ==
    /\ mono + d <= MaxClock
    /\ mono' = mono + d
    /\ wall' = wall + d
    /\ twin' = [twin EXCEPT !.wall = twin.wall + d]
    /\ UNCHANGED <<sut, disk, s, t, last, frozen, procs>>

NextWallClock ==
    \/ \E arg \in TwinStartArgs : TwinCall("start", arg, 0)
    \/ \E slip \in {0, HalfMinute} : TwinCall("status", NoArg, slip)
    \/ \E op \in {"pause", "resume", "restart"} : TwinCall(op, NoArg, 0)
    \/ TwinConstruct
    \/ \E arg \in TwinStartArgs : TwinTimerCall("start", arg, 0)
    \/ \E slip \in {0, HalfMinute} : TwinTimerCall("pause", NoArg, slip)
    \/ \E op \in {"resume", "restart", "get_remaining"} : TwinTimerCall(op, NoArg, 0)
    \/ \E j \in WallJumps : WallJump(j)
    \/ TwinAdvance(HalfMinute)

SpecWallClock == Init /\ [][NextWallClock]_vars

----------------------------------------------------------------------------
(* _format_remaining on its own: called once with a remaining time of
   0 to MaxFormatSeconds seconds, every fraction of a second the ticks
   allow. *)

MaxFormatSeconds == 780

FormatInputs == 0..(MaxFormatSeconds * TicksPerSecond + TicksPerSecond - 1)

InitFormat ==
    /\ sut = "format"
    /\ mono = 0
    /\ wall = WallEpoch
    /\ disk = Absent
    /\ s = NewSession
    /\ t = NewTimer
    /\ \E ticks \in FormatInputs : last = [NoCall EXCEPT !.arg = FloatArg(ticks)]
    /\ frozen = NotFrozen
    /\ procs = [p \in Procs |-> NoProcess]
    /\ twin = NoTwin

\* the call _format_remaining(seconds)
FormatCall ==
    /\ sut = "format"
    /\ last.op = "new"
    /\ last' = [last EXCEPT !.seq = 1, !.op = "format", !.msg = FormatRemaining(last.arg.v)]
    /\ UNCHANGED <<sut, mono, wall, disk, s, t, frozen, procs, twin>>

SpecFormat == InitFormat /\ [][FormatCall]_vars

----------------------------------------------------------------------------
(* The record damaged between two processes: cut to nothing, cut part way
   (a text that is no JSON document), or still a JSON object but with a
   state value the program never writes. *)

CorruptKinds == {"empty", "torn", "state"}

\* the file after the damage
Corrupted(file, kind) ==
    CASE kind = "empty" -> Empty
      [] kind = "torn" -> Torn(file.len - 1)
      [] kind = "state" -> Json([file.data EXCEPT !.state = "stopped"])

\* the record is not one _save writes
IsCorrupt(file) ==
    \/ file.kind \in {"empty", "torn"}
    \/ file.kind = "json" /\ file.data.state \notin TimerState

CorruptFile(kind) ==
    /\ sut = "session"
    /\ disk.kind = "json" /\ ~IsCorrupt(disk)
    /\ disk' = Corrupted(disk, kind)
    /\ UNCHANGED <<sut, mono, wall, s, t, last, frozen, procs, twin>>

\* Session() returned: there is an object to call
Constructed == ~(last.op = "construct" /\ last.raised # "none")

NextCorrupt ==
    \/ Constructed /\ \E arg \in TwinStartArgs : Start(arg)
    \/ Constructed /\ Status(0)
    \/ Constructed /\ Pause
    \/ Constructed /\ Resume
    \/ Construct
    \/ \E kind \in CorruptKinds : CorruptFile(kind)
    \/ \E d \in Steps : Advance(d)

SpecCorrupt == InitSessionOnly /\ [][NextCorrupt]_vars

----------------------------------------------------------------------------
(* One countdown left to run out: start() is called once, over no file, and
   after it only status(), resume() and new processes follow, while time
   passes. Time does pass, and status() is asked again and again. *)

\* the model's clock has no step left to take
ClockStopped == \A d \in Steps : mono + d > MaxClock

NextExpiry ==
    \/ disk = Absent /\ \E arg \in TwinStartArgs : Start(arg)
    \/ Status(0)
    \/ Resume
    \/ Construct
    \/ \E d \in Steps : Advance(d)

SpecExpiry ==
    /\ InitSessionOnly
    /\ [][NextExpiry]_vars
    /\ WF_vars(\E d \in Steps : Advance(d))
    /\ WF_vars(Status(0))

----------------------------------------------------------------------------
(* One countdown and the system clock set between processes: start() is
   called once, over no file; after it come status(), pause(), resume() and
   new processes, while time passes and the wall clock is set forward or
   back, once, by the operator or by NTP. *)

\* time.time() is set by j, once
SetWall(j) ==
    /\ sut = "session"
    /\ wall = WallEpoch + mono
    /\ wall' = wall + j
    /\ UNCHANGED <<sut, mono, disk, s, t, last, frozen, procs, twin>>

NextWallSet ==
    \/ disk = Absent /\ Start(IntArg(1))
    \/ disk # Absent /\ Status(0)
    \/ disk # Absent /\ Pause
    \/ disk # Absent /\ Resume
    \/ disk # Absent /\ Construct
    \/ \E j \in WallJumps : SetWall(j)
    \/ \E d \in Steps : Advance(d)

SpecWallSet ==
    /\ InitSessionOnly
    /\ [][NextWallSet]_vars
    /\ WF_vars(Status(0))

----------------------------------------------------------------------------
(* Reading a step: the call it made, if any *)

\* the step is a call of `op` (last.seq flips at every call)
Called(op) == last'.seq # last.seq /\ last'.op = op
\* the step is a call of `op` that returned
Returned(op) == Called(op) /\ last'.raised = "none"
\* the step is a call of `op` that raised `exc`
Raised(op, exc) == Called(op) /\ last'.raised = exc

----------------------------------------------------------------------------
(* C1: a Session call made from a state outside its guard set raises
   InvalidStateError and leaves the record as it was: start from Running or
   Paused, pause from Idle, Paused or Expired, resume from Idle, Running or
   Expired, restart from Idle. *)
IllegalFrom(op) ==
    CASE op = "start" -> {RUNNING, PAUSED}
      [] op = "pause" -> {IDLE, PAUSED, EXPIRED}
      [] op = "resume" -> {IDLE, RUNNING, EXPIRED}
      [] op = "restart" -> {IDLE}

C1_GuardStep ==
    \A op \in {"start", "pause", "resume", "restart"} :
        (sut = "session" /\ Called(op) /\ SessionStateAt(s, mono) \in IllegalFrom(op)) =>
            /\ last'.raised = "InvalidStateError"
            /\ disk' = disk
C1_IllegalCallRaises == [][C1_GuardStep]_vars

(* C2: Session.start with minutes outside 1..60, from Idle or Expired, fails
   with the duration error and changes neither the object nor the record. *)
C2_DurationStep ==
    (/\ sut = "session" /\ Called("start")
     /\ ~(MIN_DURATION <= last'.arg.v /\ last'.arg.v <= MAX_DURATION)
     /\ SessionStateAt(s, mono) \in {IDLE, EXPIRED}) =>
        /\ last'.raised \in {"InvalidDuration", "ValueError", "TypeError"}
        /\ s' = s
        /\ disk' = disk
C2_InvalidDurationRejected == [][C2_DurationStep]_vars

(* C3: a mutating invocation holds the record exclusively from its load
   to its save, so two invocations side by side are serialized: of two
   processes that invoke start with no record on disk, at most one
   succeeds, the other raises InvalidStateError. *)
C3_OneStartWins ==
    \A p, q \in Procs :
        (/\ p # q
         /\ procs[p].verb = "start" /\ procs[q].verb = "start"
         /\ procs[p].found = "absent" /\ procs[q].found = "absent"
         /\ procs[p].pc = "exited" /\ procs[q].pc = "exited") =>
            \/ procs[p].raised = "InvalidStateError"
            \/ procs[q].raised = "InvalidStateError"

(* C4: a process that loads the record while another saves it reads the
   whole previous record or the whole new one, never an empty or partly
   written file. *)
C4_LoadSeesWholeRecord ==
    \A p \in Procs :
        /\ procs[p].found \in {"nothing", "absent", "json"}
        /\ procs[p].raised # "JSONDecodeError"

(* C5: a process that loads a running record with stored remaining r after
   a wall-clock gap g = now - started_at is Running with remaining r - g,
   anchored at the monotonic reading of the load, when g < r, and Expired
   with remaining 0 when g >= r; g = r is Expired. *)
C5_LoadRunningStep ==
    (Returned("construct") /\ disk.kind = "json" /\ disk.data.state = RUNNING) =>
        LET r == disk.data.remaining_seconds
            g == wall - disk.data.started_at
        IN  /\ g < r => /\ s'.state = RUNNING
                         /\ s'.remaining_seconds = r - g
                         /\ s'.monotonic_ref = mono
                         /\ GetRemaining(s', mono') = r - g
            /\ g >= r => /\ s'.state = EXPIRED
                          /\ s'.remaining_seconds = 0
                          /\ GetRemaining(s', mono') = 0
C5_LoadRunning == [][C5_LoadRunningStep]_vars

\* a running record with budget left was loaded exactly when the gap
\* reached the budget, and came back Expired
C5_Witness ==
    /\ last.op = "construct"
    /\ disk.kind = "json" /\ disk.data.state = RUNNING
    /\ disk.data.remaining_seconds > 0
    /\ wall - disk.data.started_at = disk.data.remaining_seconds
    /\ s.state = EXPIRED /\ s.remaining_seconds = 0

(* C6: pause then resume preserves the remaining time, for Timer and for
   Session, also with a new process between the two: while paused the
   remaining time is the one seen just before the pause; right after the
   resume it is that value again, however long the pause lasted; from there
   the countdown goes on, one tick of remaining time per tick of the clock. *)
C6_PauseResume ==
    LET left == IF sut = "session" THEN SessionRemainingAt(s, mono)
                ELSE TimerRemainingAt(t, mono)
        state == IF sut = "session" THEN s.state ELSE t.state
    IN  /\ frozen.phase = "paused" => state = PAUSED /\ left = frozen.v
        /\ frozen.phase = "resumed" =>
               /\ left = Max(frozen.v - (mono - frozen.at), 0)
               /\ left > 0 => state = RUNNING

\* a session paused with time left by one process and resumed later by
\* another, seen right after the resume
C6_Witness ==
    /\ sut = "session" /\ last.op = "resume"
    /\ frozen.phase = "resumed" /\ frozen.reloaded
    /\ frozen.pausedFor > 0 /\ frozen.at = mono
    /\ frozen.v > 0 /\ frozen.v < s.duration_minutes * TicksPerMinute
    /\ SessionRemainingAt(s, mono) = frozen.v

(* C7: restart from Running, Paused or Expired ends Running with the
   remaining time reset to the original duration, which it leaves as it
   was; Session reports "Session restarted: {minutes} minutes" and a
   status() right after it reports "{minutes}:00 remaining". *)
C7_RestartStep ==
    /\ (sut = "timer" /\ Called("restart") /\ t.state \in {RUNNING, PAUSED, EXPIRED}) =>
           /\ last'.raised = "none"
           /\ t'.state = RUNNING
           /\ TimerRemainingAt(t', mono') = t.original_duration_minutes * TicksPerMinute
           /\ t'.original_duration_minutes = t.original_duration_minutes
    /\ (sut = "session" /\ Called("restart") /\ s.state \in {RUNNING, PAUSED, EXPIRED}) =>
           /\ last'.raised = "none"
           /\ s'.state = RUNNING
           /\ s'.remaining_seconds = s.duration_minutes * TicksPerMinute
           /\ s'.monotonic_ref = mono
           /\ s'.duration_minutes = s.duration_minutes
           /\ last'.msg = "Session restarted: " \o ToString(s.duration_minutes) \o " minutes"
    /\ (/\ sut = "session" /\ Called("status") /\ ~last'.slipped
        /\ last.op = "restart" /\ last.from \in {RUNNING, PAUSED, EXPIRED}
        /\ last.raised = "none" /\ s.monotonic_ref = mono) =>
           /\ last'.msg = ToString(s.duration_minutes) \o ":00 remaining"
           /\ last'.ret = 0
C7_Restart == [][C7_RestartStep]_vars

(* C8: for every minutes in 1..60, Session.start(minutes) from Idle or
   Expired returns "Session started: {minutes} minutes", and a status()
   right after it, the clock not having moved, returns
   ("{minutes}:00 remaining", 0). *)
C8_StartStep ==
    /\ (/\ sut = "session" /\ Called("start")
        /\ last'.arg.v \in MIN_DURATION..MAX_DURATION
        /\ SessionStateAt(s, mono) \in {IDLE, EXPIRED}) =>
           /\ last'.raised = "none"
           /\ last'.msg = "Session started: " \o ToString(last'.arg.v) \o " minutes"
    /\ (/\ sut = "session" /\ Called("status") /\ ~last'.slipped
        /\ last.op = "start" /\ last.raised = "none"
        /\ last.arg.v \in MIN_DURATION..MAX_DURATION
        /\ s.monotonic_ref = mono) =>
           /\ last'.raised = "none"
           /\ last'.msg = ToString(last.arg.v) \o ":00 remaining"
           /\ last'.ret = 0
C8_StartThenStatus == [][C8_StartStep]_vars

\* start(60) on a session that had expired, and the status() right after it
C8_Witness ==
    /\ sut = "session" /\ last.op = "status" /\ ~last.slipped
    /\ last.msg = "60:00 remaining" /\ last.ret = 0
    /\ s.duration_minutes = MAX_DURATION
    /\ s.monotonic_ref = mono /\ mono >= TicksPerMinute

(* C9: Session.status() never raises, and the effective state decides what
   it returns: Running ("{M:SS} remaining", 0) with M:SS the budget less the
   monotonic time since the anchor (never below zero), Paused
   ("{M:SS} remaining (paused)", 0), Expired ("Session expired", 1), Idle
   ("No active session", 1); the exit code is 0 exactly for Running and
   Paused. *)
C9_StatusStep ==
    (sut = "session" /\ Called("status")) =>
        LET state == SessionStateAt(s, mono)
            left == Max(s.remaining_seconds - (mono' - s.monotonic_ref), 0)
        IN  /\ last'.raised = "none"
            /\ state = RUNNING =>
                   last'.msg = FormatRemaining(left) \o " remaining" /\ last'.ret = 0
            /\ state = PAUSED =>
                   /\ last'.msg = FormatRemaining(s.remaining_seconds) \o " remaining (paused)"
                   /\ last'.ret = 0
            /\ state = EXPIRED => last'.msg = "Session expired" /\ last'.ret = 1
            /\ state = IDLE => last'.msg = "No active session" /\ last'.ret = 1
            /\ last'.ret = 0 <=> state \in {RUNNING, PAUSED}
C9_Status == [][C9_StatusStep]_vars

\* status() of a session paused half a second short of the half minute
C9_Witness ==
    /\ sut = "session" /\ last.op = "status"
    /\ s.state = PAUSED /\ s.remaining_seconds = HalfMinute - 1
    /\ last.msg = FormatRemaining(HalfMinute - 1) \o " remaining (paused)"
    /\ last.ret = 0

(* C10: lazy expiry in the process: status() on a Running session whose
   monotonic time since the anchor has reached the budget (equality
   included) returns ("Session expired", 1) and leaves the object Expired;
   short of the budget the object stays Running. *)
C10_ExpiryStep ==
    (sut = "session" /\ Called("status") /\ s.state = RUNNING) =>
        LET elapsed == mono - s.monotonic_ref
            budget == s.remaining_seconds
        IN  /\ elapsed >= budget =>
                   /\ last'.msg = "Session expired" /\ last'.ret = 1
                   /\ s'.state = EXPIRED
            /\ elapsed < budget => s'.state = RUNNING /\ last'.ret = 0
C10_LazyExpiry == [][C10_ExpiryStep]_vars

\* status() called on the tick the budget ran out
C10_Witness ==
    /\ sut = "session" /\ last.op = "status" /\ last.msg = "Session expired"
    /\ s.state = EXPIRED /\ s.remaining_seconds > 0
    /\ mono - s.monotonic_ref = s.remaining_seconds

(* C11: Session.pause() on a Running session whose countdown has run out
   (monotonic time since the anchor at or past the budget, the expiry not
   yet taken in by a status()) raises InvalidStateError naming the expired
   state; it leaves neither a Paused object nor a paused record. *)
C11_PauseStep ==
    (/\ sut = "session" /\ Called("pause")
     /\ s.state = RUNNING /\ s.remaining_seconds > 0
     /\ mono - s.monotonic_ref >= s.remaining_seconds) =>
        /\ last'.raised = "InvalidStateError"
        /\ last'.msg = "pause() is not valid from expired state"
        /\ s'.state # PAUSED
        /\ ~(disk'.kind = "json" /\ disk'.data.state = PAUSED)
C11_PauseAfterExpiry == [][C11_PauseStep]_vars

(* C12: Timer's transitions are those of the table, on the state the object
   holds (for pause: once its own expiry check is made): start(1..60) from
   Idle or Expired ends Running, pause from Running with budget left ends
   Paused, resume from Paused ends Running, restart from Running, Paused or
   Expired ends Running; every other call raises InvalidStateError with the
   message "{operation}() is not valid from {state} state", {state} the
   current state. *)
TimerGuard(op) ==
    CASE op = "start" -> {IDLE, EXPIRED}
      [] op = "pause" -> {RUNNING}
      [] op = "resume" -> {PAUSED}
      [] op = "restart" -> {RUNNING, PAUSED, EXPIRED}

TimerTarget(op) == IF op = "pause" THEN PAUSED ELSE RUNNING

C12_TableStep ==
    \A op \in {"start", "pause", "resume", "restart"} :
        (/\ sut = "timer" /\ Called(op)
         /\ op = "start" => /\ last'.arg.type = "int"
                            /\ last'.arg.v \in MIN_DURATION..MAX_DURATION) =>
            LET current == IF op = "pause" THEN TimerStateAt(t, mono) ELSE t.state
            IN  IF current \in TimerGuard(op)
                THEN last'.raised = "none" /\ t'.state = TimerTarget(op)
                ELSE /\ last'.raised = "InvalidStateError"
                     /\ last'.msg = op \o "() is not valid from " \o current \o " state"
                     /\ t'.state = current
C12_TimerTable == [][C12_TableStep]_vars

\* pause() of a timer whose budget ran out unobserved: refused, for the
\* expired state
C12_Witness ==
    /\ sut = "timer" /\ last.op = "pause" /\ last.from = RUNNING
    /\ last.raised = "InvalidStateError"
    /\ last.msg = "pause() is not valid from expired state"
    /\ t.state = EXPIRED

(* C13 as stated: a Timer call that raises InvalidStateError leaves the Timer
   exactly as it was: state, original duration, run duration, anchor and
   frozen remainder, pause() of a Running timer whose budget has elapsed
   included. *)
C13_UnchangedStep ==
    \A op \in {"start", "pause", "resume", "restart"} :
        (sut = "timer" /\ Raised(op, "InvalidStateError")) => t' = t
C13_RaiseLeavesTimer == [][C13_UnchangedStep]_vars

(* C13 amended: a Timer call that raises InvalidStateError leaves original
   duration, run duration and anchor as they were; state and frozen
   remainder too, except that pause() of a Running timer whose budget has
   elapsed leaves the timer Expired with the frozen remainder 0. *)
C13_AmendedStep ==
    \A op \in {"start", "pause", "resume", "restart"} :
        (sut = "timer" /\ Raised(op, "InvalidStateError")) =>
            IF op = "pause" /\ t.state = RUNNING
            THEN /\ mono - t.start_time >= t.duration_seconds
                 /\ t' = [t EXCEPT !.state = EXPIRED, !.remaining_at_pause = 0]
            ELSE t' = t
C13_RaiseLeavesTimerButExpiry == [][C13_AmendedStep]_vars

\* pause() refused on a timer that ran its whole budget out: the object is
\* now Expired, budget and anchor as they were
C13_Witness ==
    /\ sut = "timer" /\ last.op = "pause" /\ last.from = RUNNING
    /\ last.raised = "InvalidStateError"
    /\ t.state = EXPIRED /\ t.remaining_at_pause = 0
    /\ t.duration_seconds > 0 /\ mono - t.start_time >= t.duration_seconds

(* C14: Timer.start checks the duration before the state and apart from it:
   from every state, Running and Paused included, a non-integer raises
   TypeError and an integer outside 1..60 raises ValueError, never
   InvalidStateError, and the Timer is left as it was. *)
C14_DurationStep ==
    (sut = "timer" /\ Called("start")) =>
        /\ last'.arg.type # "int" => last'.raised = "TypeError" /\ t' = t
        /\ (last'.arg.type = "int" /\ ~(last'.arg.v \in 1..60)) =>
               last'.raised = "ValueError" /\ t' = t
        /\ (last'.arg.type = "int" /\ last'.arg.v \in 1..60) =>
               last'.raised \in {"none", "InvalidStateError"}
C14_DurationBeforeState == [][C14_DurationStep]_vars

\* start(61) on a paused timer: the duration error, and the timer still
\* paused with its remainder
C14_Witness ==
    /\ sut = "timer" /\ last.op = "start" /\ last.arg = IntArg(61)
    /\ last.from = PAUSED /\ last.raised = "ValueError"
    /\ t.state = PAUSED /\ t.remaining_at_pause > 0

(* C15: Timer.get_remaining() never returns a negative value: 0 in Idle and
   in Expired; in Running the run duration less the monotonic time since the
   anchor while that is above 0, and once that time has reached the run
   duration (equality included) 0, the read itself leaving the timer
   Expired. *)
C15_RemainingStep ==
    (sut = "timer" /\ Called("get_remaining")) =>
        LET elapsed == mono - t.start_time IN
        /\ last'.raised = "none"
        /\ last'.ret >= 0
        /\ t.state \in {IDLE, EXPIRED} => last'.ret = 0 /\ t' = t
        /\ (t.state = RUNNING /\ elapsed < t.duration_seconds) =>
               last'.ret = t.duration_seconds - elapsed /\ t' = t
        /\ (t.state = RUNNING /\ elapsed >= t.duration_seconds) =>
               last'.ret = 0 /\ t'.state = EXPIRED
C15_GetRemaining == [][C15_RemainingStep]_vars

\* get_remaining() read on the tick the run duration was used up
C15_Witness ==
    /\ sut = "timer" /\ last.op = "get_remaining" /\ last.from = RUNNING
    /\ last.ret = 0 /\ t.state = EXPIRED
    /\ t.duration_seconds > 0 /\ mono - t.start_time = t.duration_seconds

(* C16: within one process the remaining time and the expiry of a running
   Timer or Session follow the monotonic clock alone: an execution given the
   same calls at the same monotonic readings, its wall clock set forward or
   back after construction, gets the same result from every call (exception,
   message, value), holds the same state and the same remaining time, and
   so expires at the same step. *)
C16_MonotonicOnly ==
    /\ twin.raised = last.raised /\ twin.msg = last.msg /\ twin.ret = last.ret
    /\ twin.s.state = s.state
    /\ GetRemaining(twin.s, mono) = GetRemaining(s, mono)
    /\ EffectiveState(twin.s, mono).state = EffectiveState(s, mono).state
    /\ twin.t = t

\* status() finds a session expired, in both executions, that was started
\* while their wall clocks stood a minute apart
C16_Witness ==
    /\ sut = "session" /\ last.op = "status" /\ last.from = RUNNING
    /\ last.msg = "Session expired" /\ twin.msg = "Session expired"
    /\ s.state = EXPIRED /\ twin.s.state = EXPIRED
    /\ s.remaining_seconds > 0
    /\ twin.jumped /\ twin.wall # wall
    /\ twin.s.started_at # s.started_at

(* C17: after every mutating Session call that returned (start, pause,
   resume, restart) the record on disk is the snapshot of the object: state,
   duration_minutes, remaining_seconds (the whole budget after start and
   restart, the frozen remainder after pause and after resume) and
   started_at, the wall-clock reading the call took; in a command-line
   process, the file its _save leaves is the JSON of its object. *)
C17_RecordStep ==
    \A op \in {"start", "pause", "resume", "restart"} :
        (sut = "session" /\ Returned(op)) =>
            /\ disk' = Json(SaveData(s'))
            /\ disk'.data.started_at = wall
            /\ op = "start" =>
                   /\ disk'.data.state = RUNNING
                   /\ disk'.data.duration_minutes = last'.arg.v
                   /\ disk'.data.remaining_seconds = last'.arg.v * TicksPerMinute
            /\ op = "restart" =>
                   /\ disk'.data.state = RUNNING
                   /\ disk'.data.duration_minutes = s.duration_minutes
                   /\ disk'.data.remaining_seconds = s.duration_minutes * TicksPerMinute
            /\ (op = "pause" /\ s.state = RUNNING) =>
                   /\ disk'.data.state = PAUSED
                   /\ disk'.data.remaining_seconds =
                          Max(s.remaining_seconds - (mono - s.monotonic_ref), 0)
            /\ (op = "resume" /\ s.state = PAUSED) =>
                   /\ disk'.data.state = RUNNING
                   /\ disk'.data.remaining_seconds = s.remaining_seconds

C17_SaveStep ==
    \A p \in Procs :
        (sut = "processes" /\ procs[p].pc = "dump" /\ procs'[p].pc = "exited") =>
            disk' = Json(SaveData(procs[p].s))

C17_RecordIsSnapshot == [][C17_RecordStep /\ C17_SaveStep]_vars

(* C18: while paused the remaining time is frozen, for Timer and for
   Session: the pause reports the remaining time of the moment it was made,
   and from then on every status() / get_remaining() reports that same
   value, whatever the clocks have done since, until a resume or restart. *)
C18_FrozenStep ==
    /\ (sut = "session" /\ Returned("pause") /\ frozen'.phase = "paused") =>
           last'.msg = "Session paused at " \o FormatRemaining(frozen'.v) \o " remaining"
    /\ (sut = "session" /\ Called("status") /\ frozen.phase = "paused") =>
           /\ last'.msg = FormatRemaining(frozen.v) \o " remaining (paused)"
           /\ last'.ret = 0
           /\ s'.state = PAUSED
    /\ (sut = "timer" /\ Called("get_remaining") /\ frozen.phase = "paused") =>
           /\ last'.ret = frozen.v
           /\ t'.state = PAUSED
C18_FrozenWhilePaused == [][C18_FrozenStep]_vars

\* status() of a session paused part way through its budget, asked some
\* time after the pause
C18_Witness ==
    /\ sut = "session" /\ last.op = "status" /\ s.state = PAUSED
    /\ frozen.phase = "paused" /\ mono > frozen.at
    /\ frozen.v > 0 /\ frozen.v < s.duration_minutes * TicksPerMinute
    /\ last.msg = FormatRemaining(frozen.v) \o " remaining (paused)"

(* C19: a process that loads a paused record is Paused with exactly the
   stored remaining_seconds as its remaining time, whatever the wall-clock
   time since started_at. *)
C19_LoadPausedStep ==
    (/\ sut = "session" /\ Called("construct")
     /\ disk.kind = "json" /\ disk.data.state = PAUSED) =>
        /\ last'.raised = "none"
        /\ s'.state = PAUSED
        /\ s'.remaining_seconds = disk.data.remaining_seconds
        /\ s'.duration_minutes = disk.data.duration_minutes
        /\ GetRemaining(s', mono') = disk.data.remaining_seconds
        /\ disk' = disk
C19_LoadPaused == [][C19_LoadPausedStep]_vars

\* a paused record loaded when more wall-clock time than its remainder has
\* gone by since the pause
C19_Witness ==
    /\ sut = "session" /\ last.op = "construct"
    /\ disk.kind = "json" /\ disk.data.state = PAUSED
    /\ disk.data.remaining_seconds > 0
    /\ wall - disk.data.started_at > disk.data.remaining_seconds
    /\ s.state = PAUSED /\ s.remaining_seconds = disk.data.remaining_seconds

(* C20: Session() with no record file gives an Idle session, duration,
   remaining time and both timestamps zero, and creates no file; status()
   on it returns ("No active session", 1), and creates none either. *)
C20_NoFileStep ==
    /\ (sut = "session" /\ Called("construct") /\ disk.kind = "absent") =>
           /\ last'.raised = "none"
           /\ s'.state = IDLE
           /\ s'.duration_minutes = 0 /\ s'.remaining_seconds = 0
           /\ s'.started_at = 0 /\ s'.monotonic_ref = 0
           /\ disk'.kind = "absent"
    /\ (/\ sut = "session" /\ Called("status")
        /\ last.op = "construct" /\ disk.kind = "absent") =>
           /\ last'.raised = "none"
           /\ last'.msg = "No active session" /\ last'.ret = 1
           /\ disk'.kind = "absent"
C20_NoFileIsIdle == [][C20_NoFileStep]_vars

\* Session() some time into the behaviour, no file there: Idle, and still
\* no file
C20_Witness ==
    /\ sut = "session" /\ last.op = "construct" /\ last.raised = "none"
    /\ disk.kind = "absent" /\ mono > 0
    /\ s.state = IDLE /\ s.remaining_seconds = 0 /\ s.started_at = 0

(* C21: Expired is entered only from Running (by a read that finds the
   budget used up, or by the load of a running record) and is left only by
   start or restart, which end Running: once a Timer or Session is Expired,
   status() / get_remaining(), pause() and resume() leave it Expired. *)
C21_ExpiredStep ==
    /\ (sut = "timer" /\ t.state # EXPIRED /\ t'.state = EXPIRED) => t.state = RUNNING
    /\ (sut = "session" /\ s.state # EXPIRED /\ s'.state = EXPIRED) =>
           \/ s.state = RUNNING
           \/ Called("construct") /\ disk.kind = "json" /\ disk.data.state = RUNNING
    /\ \A op \in {"get_remaining", "pause", "resume"} :
           (sut = "timer" /\ Called(op) /\ t.state = EXPIRED) => t'.state = EXPIRED
    /\ \A op \in {"status", "pause", "resume"} :
           (/\ sut = "session" /\ Called(op) /\ s.state = EXPIRED
            /\ s.duration_minutes \in MIN_DURATION..MAX_DURATION) => s'.state = EXPIRED
    /\ (sut = "timer" /\ t.state = EXPIRED /\ t'.state # EXPIRED) =>
           t'.state = RUNNING /\ (Returned("start") \/ Returned("restart"))
    /\ (/\ sut = "session" /\ ~Called("construct")
        /\ s.duration_minutes \in MIN_DURATION..MAX_DURATION
        /\ s.state = EXPIRED /\ s'.state # EXPIRED) =>
           s'.state = RUNNING /\ (Returned("start") \/ Returned("restart"))
C21_ExpiredIsTerminal == [][C21_ExpiredStep]_vars

(* C22: no interleaving of Session invocations side by side deadlocks:
   there is one lock, a process asks for it holding none, and under a fair
   scheduler every invocation, also one that had to wait for the lock, runs
   to its end. *)
C22_NoDeadlock ==
    /\ [](\A p \in Procs : procs[p].pc \in {"flock_sh", "flock_ex"} => procs[p].lock = "none")
    /\ \A p \in Procs : (procs[p].pc # "exited") ~> (procs[p].pc = "exited")

\* a process waits in _save for the exclusive lock while the other reads
\* under its shared lock
C22_Witness ==
    /\ procs[1].pc = "flock_ex" /\ procs[1].lock = "none"
    /\ procs[2].pc = "read" /\ procs[2].lock = "SH"

(* C23: pause, resume, restart and the reads (status, get_remaining) never
   change the original duration, in the Timer, in the Session or in the
   record; it changes only by a start that returned, which sets it to the
   minutes it was given. *)
C23_DurationStep ==
    /\ \A op \in {"pause", "resume", "restart", "get_remaining"} :
           (sut = "timer" /\ Called(op)) =>
               t'.original_duration_minutes = t.original_duration_minutes
    /\ (sut = "timer" /\ t'.original_duration_minutes # t.original_duration_minutes) =>
           Returned("start") /\ t'.original_duration_minutes = last'.arg.v
    /\ \A op \in {"pause", "resume", "restart", "status"} :
           (sut = "session" /\ Called(op)) =>
               /\ s'.duration_minutes = s.duration_minutes
               /\ disk'.kind = "json" => disk'.data.duration_minutes = s.duration_minutes
               /\ disk.kind = "json" => disk'.data.duration_minutes = disk.data.duration_minutes
    /\ (sut = "session" /\ ~Called("construct") /\ s'.duration_minutes # s.duration_minutes) =>
           Returned("start") /\ s'.duration_minutes = last'.arg.v
    /\ (/\ sut = "session" /\ disk.kind = "json"
        /\ disk'.data.duration_minutes # disk.data.duration_minutes) =>
           Returned("start") /\ disk'.data.duration_minutes = last'.arg.v
C23_DurationKept == [][C23_DurationStep]_vars

\* a two-minute session restarted from its pause part way through: the
\* duration is still two minutes, in the object and in the record
C23_Witness ==
    /\ sut = "session" /\ last.op = "restart" /\ last.from = PAUSED
    /\ frozen.phase = "none" /\ mono > 0
    /\ s.duration_minutes = 2 /\ disk.data.duration_minutes = 2
    /\ s.remaining_seconds = 2 * TicksPerMinute

(* C24: for every remaining time s >= 0, _format_remaining(s) is the whole
   seconds floor(s) written as minutes, a colon and seconds: floor(s) div 60
   without padding, floor(s) mod 60 as exactly two digits; 454 gives "7:34",
   5 gives "0:05", 720 gives "12:00". *)
C24_Formatting ==
    (sut = "format" /\ last.op = "format") =>
        LET whole == last.arg.v \div TicksPerSecond
            minutes == whole \div 60
            seconds == whole % 60
        IN  /\ last.msg = ToString(minutes) \o ":"
                          \o ToString(seconds \div 10) \o ToString(seconds % 10)
            /\ Len(last.msg) = Len(ToString(minutes)) + 3
            /\ whole = 454 => last.msg = "7:34"
            /\ whole = 5 => last.msg = "0:05"
            /\ whole = 720 => last.msg = "12:00"

\* 454 seconds and a fraction, formatted
C24_Witness ==
    /\ sut = "format" /\ last.op = "format"
    /\ last.arg.v = 454 * TicksPerSecond + 1
    /\ last.msg = "7:34"

(* C25: Session() over a corrupt or unparsable record raises: it never
   gives an Idle session, or any session, silently; the record is left as
   it was. *)
C25_CorruptStep ==
    (sut = "session" /\ Called("construct") /\ IsCorrupt(disk)) =>
        /\ last'.raised # "none"
        /\ disk' = disk
C25_CorruptRecordRaises == [][C25_CorruptStep]_vars

(* C26: a command builds one Session and invokes the operation of its verb
   once; an InvalidStateError is printed as its message and the process
   exits with 1; a start, pause, resume or restart that returned prints the
   message and exits with 0; status prints the message and exits with the
   code status() returned. *)
C26_Operation(p) ==
    LET verb == procs[p].verb
        ss == procs[p].s
    IN
    CASE verb = "start" -> SessionStart(ss, procs[p].arg, mono, wall)
      [] verb = "status" -> SessionStatus(ss, mono, mono)
      [] verb = "pause" -> SessionPause(ss, mono, wall)
      [] verb = "resume" -> SessionResume(ss, mono, wall)
      [] verb = "restart" -> SessionRestart(ss, mono, wall)

C26_CallStep(p) ==
    (procs[p].pc = "call" /\ procs'[p].pc # "call") =>
        LET out == C26_Operation(p)
            after == procs'[p]
        IN
        /\ procs[p].calls = 0 /\ after.calls = 1
        /\ after.s = out.s /\ after.msg = out.msg
        /\ out.raised = "InvalidStateError" =>
               /\ after.pc = "exited"
               /\ after.stderr = out.msg /\ after.stdout = "" /\ after.exit = 1
        /\ (out.raised = "none" /\ procs[p].verb = "status") =>
               /\ after.pc = "exited"
               /\ after.stdout = out.msg /\ after.stderr = "" /\ after.exit = out.ret
        /\ (out.raised = "none" /\ procs[p].verb # "status") =>
               after.pc = "save_open" /\ after.exit = NoExit

C26_EndStep(p) ==
    (procs[p].pc = "dump" /\ procs'[p].pc = "exited") =>
        /\ procs'[p].calls = 1
        /\ procs'[p].stdout = procs[p].msg /\ procs'[p].stderr = ""
        /\ procs'[p].exit = 0

C27_LoadStep ==
    (sut = "session" /\ Called("construct")
        /\ disk.kind = "json" /\ disk.data.state = RUNNING) =>
        LET left == disk.data.remaining_seconds - (wall - disk.data.started_at) IN
        /\ last'.raised = "none"
        /\ SessionStateAt(s', mono) = SessionStateAt(s, mono)
        /\ SessionRemainingAt(s', mono) = SessionRemainingAt(s, mono)
        /\ SessionStateAt(s', mono) = IF left > 0 THEN RUNNING ELSE EXPIRED
        /\ SessionRemainingAt(s', mono) = Max(left, 0)
        /\ \A later \in Steps :
               /\ SessionStateAt(s', mono + later) = SessionStateAt(s, mono + later)
               /\ SessionRemainingAt(s', mono + later) = SessionRemainingAt(s, mono + later)
C27_SameCountdown == [][C27_LoadStep]_vars

\* a load part way through the run: some of the budget is gone, some left
C27_Witness ==
    /\ sut = "session" /\ last.op = "construct"
    /\ disk.kind = "json" /\ disk.data.state = RUNNING
    /\ s.state = RUNNING /\ s.monotonic_ref = mono
    /\ s.remaining_seconds > 0
    /\ s.remaining_seconds < disk.data.remaining_seconds
    /\ s.remaining_seconds < TicksPerMinute
    /\ disk.data.duration_minutes = 2

(* C28: expiry is lazy in Timer. Time passing alone leaves the Timer as it
   is; get_state() reports the state field, Running also after the budget
   has run out; the state goes from Running to Expired only in a call of
   get_remaining() or pause(), and those calls do make it Expired once the
   budget has run out. *)
C28_LazyStep ==
    sut = "timer" =>
        LET over == mono - t.start_time >= t.duration_seconds IN
        /\ last' = last => t' = t
        /\ Called("get_state") => t' = t /\ last'.msg = t.state
        /\ (t.state = RUNNING /\ t'.state = EXPIRED) =>
               Called("get_remaining") \/ Called("pause")
        /\ (t.state # EXPIRED /\ t'.state = EXPIRED) => t.state = RUNNING /\ over
        /\ ((Called("get_remaining") \/ Called("pause")) /\ t.state = RUNNING /\ over) =>
               t'.state = EXPIRED
C28_LazyExpiry == [][C28_LazyStep]_vars

\* a Timer whose budget had run out was still Running when pause() was
\* called, and the call made it Expired
C28_Witness ==
    /\ sut = "timer" /\ last.op = "pause" /\ last.from = RUNNING
    /\ last.raised = "InvalidStateError"
    /\ t.state = EXPIRED /\ t.duration_seconds > 0
    /\ mono - t.start_time > t.duration_seconds

(* C30: status() only reads. Neither status(), also when it turns the
   object from Running to Expired, nor the construction of a Session writes
   the record: the file is after the call what the last mutating call left. *)
C30_ReadStep ==
    (sut = "session" /\ (Called("status") \/ Called("construct"))) => disk' = disk
C30_StatusIsPureRead == [][C30_ReadStep]_vars

\* status() has just turned the object Expired; the record still says Running
C30_Witness ==
    /\ sut = "session" /\ last.op = "status" /\ last.from = RUNNING
    /\ last.msg = "Session expired" /\ s.state = EXPIRED
    /\ disk.kind = "json" /\ disk.data.state = RUNNING
    /\ disk.data.remaining_seconds = TicksPerMinute

(* C29: expiry is reached. Once a session is Running, with the clocks
   advancing and no pause, restart or start issued, status() eventually
   returns ("Session expired", 1) (the model's clock permitting), and from
   then on every status() returns it. *)
C29_ExpiredSeen ==
    last.op = "status" /\ last.msg = "Session expired" /\ last.ret = 1

C29_ExpiryIsReached ==
    /\ [](s.state = RUNNING => <>(C29_ExpiredSeen \/ ClockStopped))
    /\ [](C29_ExpiredSeen => [](last.op = "status" => C29_ExpiredSeen))

(* C31: expiry is stable across processes. Once a process has seen the
   session Expired, every process that loads the record later sees it
   Expired too, as long as no start or restart is made, however the wall
   clock is set in between. *)
C31_SeenExpired ==
    sut = "session" /\ last.op \in {"status", "construct"} /\ s.state = EXPIRED

C31_ExpiryIsStable ==
    [](C31_SeenExpired => []((last.op = "construct" /\ last.raised = "none") =>
                                  s.state = EXPIRED))

(* C32: every record Session writes has duration_minutes in 1..60 and
   0 <= remaining_seconds <= duration_minutes * 60. *)
C32_RecordInRange ==
    (sut = "session" /\ disk.kind = "json") =>
        /\ disk.data.duration_minutes \in MIN_DURATION..MAX_DURATION
        /\ disk.data.remaining_seconds >= 0
        /\ disk.data.remaining_seconds <= disk.data.duration_minutes * TicksPerMinute

(* C33: a paused countdown has time left. A Timer or Session in state
   Paused, and every paused record, holds a frozen remaining time greater
   than 0, also when the clock moves between the expiry check of pause()
   and the reading it computes the frozen value from. *)
C33_PausedHasTimeLeft ==
    /\ (sut = "timer" /\ t.state = PAUSED) => t.remaining_at_pause > 0
    /\ (sut = "session" /\ s.state = PAUSED) => s.remaining_seconds > 0
    /\ (sut = "session" /\ disk.kind = "json" /\ disk.data.state = PAUSED) =>
           disk.data.remaining_seconds > 0

(* C34: between one successful start or restart and the next the remaining
   time of a Session never goes up: over status, pause and resume calls,
   time passing and new processes, what the Session reports and what the
   record holds is at most what it was before, and a session at 0 stays
   at 0. *)
C34_Step ==
    (sut = "session" /\ s.duration_minutes \in MIN_DURATION..MAX_DURATION
        /\ ~Returned("start") /\ ~Returned("restart")) =>
        /\ SessionRemainingAt(s', mono') <= SessionRemainingAt(s, mono)
        /\ (disk.kind = "json" /\ disk'.kind = "json") =>
               disk'.data.remaining_seconds <= disk.data.remaining_seconds
C34_RemainingNeverIncreases == [][C34_Step]_vars

====
